---- MODULE Spec2Model ----
(***************************************************************************)
(* RightOrRude (src/app.py): a Streamlit script that asks five personas    *)
(* and then a judge for an AITA verdict over a remote model.               *)
(*                                                                         *)
(* Text is modelled as a sequence of lexical pieces (tokens), so that      *)
(* json.loads is a real parser over the reply text, str.strip removes      *)
(* pieces, and an f-string is a concatenation in which an interpolated     *)
(* text can be found again.                                                *)
(***************************************************************************)
EXTENDS Integers, Sequences, FiniteSets, TLC

(***************************************************************************)
(* Bounds of the model.                                                    *)
(***************************************************************************)
\* integer scores of the replies range over -Over .. 100 + Over
Over == 2

(***************************************************************************)
(* Text                                                                    *)
(***************************************************************************)
\* one lexical piece of a text: kind t, characters s, numeric value n
Tok(t, s, n) == [t |-> t, s |-> s, n |-> n]

LBrace == Tok("punct", "{", 0)
RBrace == Tok("punct", "}", 0)
LBrack == Tok("punct", "[", 0)
RBrack == Tok("punct", "]", 0)
Comma  == Tok("punct", ",", 0)
Colon  == Tok("punct", ":", 0)
\* a JSON string literal "s"
JStr(s) == Tok("string", s, 0)
\* a JSON integer literal
JInt(n) == Tok("int", "", n)
\* a JSON number with a fraction or an exponent, such as 10.0 or 1e2
JFloat(s) == Tok("float", s, 0)
JTrue  == Tok("true", "true", 0)
JFalse == Tok("false", "false", 0)
JNull  == Tok("null", "null", 0)
\* a bare word, which is no JSON
Word(s) == Tok("word", s, 0)
\* white space
WS == Tok("ws", " ", 0)
\* the characters of a Python str: nothing for the empty str
Chars(s) == IF s = "" THEN <<>> ELSE <<Tok("chars", s, 0)>>

\* text inner occurs verbatim in text outer
Contains(outer, inner) ==
    \E i \in 1..(Len(outer) + 1) :
        /\ i + Len(inner) - 1 <= Len(outer)
        /\ SubSeq(outer, i, i + Len(inner) - 1) = inner

RECURSIVE lstrip(_)
lstrip(text) ==
    IF text # <<>> /\ Head(text).t = "ws" THEN lstrip(Tail(text)) ELSE text

RECURSIVE rstrip(_)
rstrip(text) ==
    IF text # <<>> /\ text[Len(text)].t = "ws"
    THEN rstrip(SubSeq(text, 1, Len(text) - 1))
    ELSE text

\* str.strip()
strip(text) == rstrip(lstrip(text))

(***************************************************************************)
(* Python values, as json.loads builds them                                *)
(***************************************************************************)
\* a value: its type ty, str content s, number n, and the items of a
\* dict (key k, value v) or of a list (k = "")
PyVal(ty, s, n, items) == [ty |-> ty, s |-> s, n |-> n, items |-> items]

PyInt(n) == PyVal("int", "", n, <<>>)
PyBool(b) == PyVal("bool", "", IF b THEN 1 ELSE 0, <<>>)
PyStr(s) == PyVal("str", s, 0, <<>>)

\* isinstance(v, int): bool is a subclass of int
isinstance_int(v) == v.ty \in {"int", "bool"}
isinstance_str(v) == v.ty = "str"
isinstance_dict(v) == v.ty = "dict"

\* key in data
HasKey(data, key) == \E i \in 1..Len(data.items) : data.items[i].k = key
\* data[key]
Get(data, key) ==
    data.items[CHOOSE i \in 1..Len(data.items) : data.items[i].k = key].v

\* d[key] = v on the item list of a dict: a repeated key keeps its place
\* and takes the last value
SetItem(items, key, v) ==
    IF \E i \in 1..Len(items) : items[i].k = key
    THEN [i \in 1..Len(items) |->
            IF items[i].k = key THEN [k |-> key, v |-> v] ELSE items[i]]
    ELSE Append(items, [k |-> key, v |-> v])

\* min(a, b) and max(a, b) of Python: the first argument unless the second
\* is strictly smaller (larger); the value returned keeps its type
py_min(a, b) == IF b.n < a.n THEN b ELSE a
py_max(a, b) == IF b.n > a.n THEN b ELSE a

(***************************************************************************)
(* json.loads                                                              *)
(***************************************************************************)
ParseFail(msg) == [ok |-> FALSE, val |-> PyVal("NoneType", msg, 0, <<>>), next |-> 0]
ParseOk(val, next) == [ok |-> TRUE, val |-> val, next |-> next]

RECURSIVE ParseValue(_, _)
RECURSIVE ParseMembers(_, _, _)
RECURSIVE ParseElements(_, _, _)

\* the value that starts at piece i of toks, and the position after it
ParseValue(toks, i) ==
    IF i > Len(toks) THEN ParseFail("Expecting value")
    ELSE LET tk == toks[i] IN
        CASE tk.t = "string" -> ParseOk(PyStr(tk.s), i + 1)
          [] tk.t = "int"    -> ParseOk(PyInt(tk.n), i + 1)
          [] tk.t = "float"  -> ParseOk(PyVal("float", tk.s, 0, <<>>), i + 1)
          [] tk.t = "true"   -> ParseOk(PyBool(TRUE), i + 1)
          [] tk.t = "false"  -> ParseOk(PyBool(FALSE), i + 1)
          [] tk.t = "null"   -> ParseOk(PyVal("NoneType", "", 0, <<>>), i + 1)
          [] tk = LBrace ->
                IF i + 1 <= Len(toks) /\ toks[i + 1] = RBrace
                THEN ParseOk(PyVal("dict", "", 0, <<>>), i + 2)
                ELSE ParseMembers(toks, i + 1, <<>>)
          [] tk = LBrack ->
                IF i + 1 <= Len(toks) /\ toks[i + 1] = RBrack
                THEN ParseOk(PyVal("list", "", 0, <<>>), i + 2)
                ELSE ParseElements(toks, i + 1, <<>>)
          [] OTHER -> ParseFail("Expecting value")

\* the members "key": value, ... } of an object, from piece i on
ParseMembers(toks, i, items) ==
    IF i > Len(toks) \/ toks[i].t # "string"
    THEN ParseFail("Expecting property name enclosed in double quotes")
    ELSE IF i + 1 > Len(toks) \/ toks[i + 1] # Colon
    THEN ParseFail("Expecting ':' delimiter")
    ELSE LET r == ParseValue(toks, i + 2) IN
        IF ~r.ok THEN r
        ELSE LET items2 == SetItem(items, toks[i].s, r.val) IN
            IF r.next > Len(toks) THEN ParseFail("Expecting ',' delimiter")
            ELSE IF toks[r.next] = RBrace
            THEN ParseOk(PyVal("dict", "", 0, items2), r.next + 1)
            ELSE IF toks[r.next] = Comma
            THEN ParseMembers(toks, r.next + 1, items2)
            ELSE ParseFail("Expecting ',' delimiter")

\* the elements value, ... ] of an array, from piece i on
ParseElements(toks, i, items) ==
    LET r == ParseValue(toks, i) IN
    IF ~r.ok THEN r
    ELSE LET items2 == Append(items, [k |-> "", v |-> r.val]) IN
        IF r.next > Len(toks) THEN ParseFail("Expecting ',' delimiter")
        ELSE IF toks[r.next] = RBrack
        THEN ParseOk(PyVal("list", "", 0, items2), r.next + 1)
        ELSE IF toks[r.next] = Comma
        THEN ParseElements(toks, r.next + 1, items2)
        ELSE ParseFail("Expecting ',' delimiter")

\* json.loads(text): the decoded value, or JSONDecodeError with its message;
\* white space between the pieces is skipped, and text after the value is
\* an error
json_loads(text) ==
    LET toks == SelectSeq(text, LAMBDA tk : tk.t # "ws")
        r == ParseValue(toks, 1)
    IN  IF ~r.ok THEN [ok |-> FALSE, val |-> r.val, err |-> r.val.s]
        ELSE IF r.next <= Len(toks)
        THEN [ok |-> FALSE, val |-> r.val, err |-> "Extra data"]
        ELSE [ok |-> TRUE, val |-> r.val, err |-> ""]

(***************************************************************************)
(* parse_response                                                          *)
(***************************************************************************)
valid_verdicts == <<"NTA", "YTA", "ESH", "NAH", "INFO">>

\* x in valid_verdicts
InValidVerdicts(x) == \E i \in 1..Len(valid_verdicts) : valid_verdicts[i] = x

\* a (verdict, score, explanation) triple
Judgment(verdict, score, explanation) ==
    [verdict |-> verdict, score |-> score, explanation |-> explanation]

\* the condition of the if at lines 91-94
MatchesFormat(data) ==
    /\ isinstance_dict(data)
    /\ HasKey(data, "verdict")
    /\ isinstance_str(Get(data, "verdict"))
    /\ InValidVerdicts(Get(data, "verdict").s)
    /\ HasKey(data, "score")
    /\ isinstance_int(Get(data, "score"))
    /\ HasKey(data, "explanation")
    /\ isinstance_str(Get(data, "explanation"))

\* a clamp that forgets the upper end
ClampScore_NoUpperBound(score) == py_max(PyInt(0), score)

\* score = max(0, min(100, data['score']))
ClampScore(score) == py_max(PyInt(0), py_min(PyInt(100), score))

\* the code fence (three backquotes) that surrounds the raw response
Fence == Tok("chars", "<fence>", 0)

\* a diagnostic that leaves the raw response out
FormatMismatchExplanation_NoRaw(response_text, persona_name) ==
    <<Tok("chars", "Parsed JSON for ", 0), Tok("chars", persona_name, 0),
      Tok("chars", " does not match expected format.", 0)>>

\* the f-string of line 99
FormatMismatchExplanation(response_text, persona_name) ==
    <<Tok("chars", "Parsed JSON for ", 0), Tok("chars", persona_name, 0),
      Tok("chars", " does not match expected format.\nRaw Response:\n", 0), Fence>>
    \o response_text \o <<Tok("chars", "\n", 0), Fence>>

\* the f-string of line 101
DecodeErrorExplanation(response_text, persona_name, e) ==
    <<Tok("chars", "Failed to decode JSON response for ", 0),
      Tok("chars", persona_name, 0), Tok("chars", ": ", 0), Tok("chars", e, 0),
      Tok("chars", "\nRaw Response:\n", 0), Fence>>
    \o response_text \o <<Tok("chars", "\n", 0), Fence>>

\* the reply is taken as a judgment: lines 90-94
Validates(response_text) ==
    LET d == json_loads(response_text) IN d.ok /\ MatchesFormat(d.val)

parse_response(response_text, persona_name) ==
    LET d == json_loads(response_text) IN
    IF d.ok
    THEN IF MatchesFormat(d.val)
         THEN Judgment(Get(d.val, "verdict").s,
                       ClampScore(Get(d.val, "score")),
                       Chars(Get(d.val, "explanation").s))
         ELSE Judgment("Error", PyInt(50),
                       FormatMismatchExplanation(response_text, persona_name))
    ELSE Judgment("Error", PyInt(50),
                  DecodeErrorExplanation(response_text, persona_name, d.err))

(***************************************************************************)
(* The script: state                                                       *)
(***************************************************************************)
VARIABLES
    api_configured,     \* st.session_state.api_configured
    gemini_model,       \* 'gemini_model' in st.session_state
    pc,                 \* where the current run of the script is
    scenario,           \* the value of the text area in this run
    bound,              \* the names the button handler has assigned in this run
    persona_results,    \* the list of the persona opinions
    judge_prompt,       \* the text sent to the judge
    final_verdict,
    final_score,
    final_explanation,
    calls,              \* the prompts given to model.generate_content, in order
    replies,            \* what each of these calls did: the text or the exception
    reported,           \* the st.error / st.warning messages of this run, in order
    rendered,           \* what the display section has shown
    p_text,             \* parse_response on its own: the text
    p_name,             \*   the persona_name
    p_out               \*   the triple returned

vars == <<api_configured, gemini_model, pc, scenario, bound, persona_results,
          judge_prompt, final_verdict, final_score, final_explanation, calls,
          replies, reported, rendered, p_text, p_name, p_out>>

session_state == <<api_configured, gemini_model>>
run_locals == <<scenario, bound, persona_results, judge_prompt, final_verdict,
                final_score, final_explanation, calls, replies, rendered>>
parse_vars == <<p_text, p_name, p_out>>

(***************************************************************************)
(* The personas and the prompts                                            *)
(***************************************************************************)
\* the keys of the personas dict, in insertion order
PersonaNames == <<"Brittany", "Chad", "Mom", "Prof. Dr. Socrates", "Mrs. Jackson">>

\* personas[name], by its distinguishing words
personas(name) ==
    CASE name = "Brittany" -> "a sassy GenZ chick"
      [] name = "Chad" -> "a 'based gym bro'"
      [] name = "Mom" -> "a wise and experienced parent"
      [] name = "Prof. Dr. Socrates" -> "a psychology professor"
      [] name = "Mrs. Jackson" -> "a teacher"

\* the f-string of lines 117-130
persona_prompt(persona_name, text) ==
    <<Tok("chars", "Analyze the following scenario ... Adopt the persona of a '", 0),
      Tok("chars", persona_name, 0),
      Tok("chars", "' with the following instructions: ", 0),
      Tok("chars", personas(persona_name), 0),
      Tok("chars", "Respond ONLY with a valid JSON object ... Scenario:", 0)>>
    \o Chars(text)

\* str(score) in an f-string
py_str(score) ==
    IF score.ty = "bool"
    THEN Tok("chars", IF score.n = 1 THEN "True" ELSE "False", 0)
    ELSE Tok("int", "", score.n)

\* the four lines that the loop of lines 163-167 adds for one opinion
OpinionLines(res) ==
    <<Tok("chars", "\n--- ", 0), Tok("chars", res.name, 0), Tok("chars", " ---\n", 0),
      Tok("chars", "Verdict: ", 0), Tok("chars", res.verdict, 0), Tok("chars", "\n", 0),
      Tok("chars", "Score: ", 0), py_str(res.score), Tok("chars", "\n", 0),
      Tok("chars", "Explanation: ", 0)>>
    \o res.explanation \o <<Tok("chars", "\n", 0)>>

RECURSIVE AllOpinionLines_SkipErrors(_)
\* a loop that leaves the "Error" entries out of the prompt
AllOpinionLines_SkipErrors(results) ==
    IF results = <<>> THEN <<>>
    ELSE (IF Head(results).verdict = "Error" THEN <<>> ELSE OpinionLines(Head(results)))
         \o AllOpinionLines_SkipErrors(Tail(results))

RECURSIVE AllOpinionLines(_)
\* for res in persona_results: judge_prompt += ...
AllOpinionLines(results) ==
    IF results = <<>> THEN <<>>
    ELSE OpinionLines(Head(results)) \o AllOpinionLines(Tail(results))

\* the opening of the judge prompt, lines 152-158
JudgeHeader == Tok("chars", "You are the final judge ... Original Scenario:", 0)

\* lines 151-177
build_judge_prompt(text, results) ==
    <<JudgeHeader>>
    \o Chars(text)
    \o <<Tok("chars", "Reviewer Opinions:", 0)>>
    \o AllOpinionLines(results)
    \o <<Tok("chars", "Based on the above, provide your final judgment. ...", 0)>>

\* one entry of persona_results
Opinion(name, j) ==
    [name |-> name, verdict |-> j.verdict, score |-> j.score,
     explanation |-> j.explanation]

\* the entry of lines 143-148, for the exception e
ErrorOpinion(name, e) ==
    [name |-> name, verdict |-> "Error", score |-> PyInt(50),
     explanation |-> <<Tok("chars", "An error occurred: ", 0)>> \o Chars(e)]

\* res['name'].replace('_', ' ').title(): the five names are in title case
\* and hold no underscore
persona_display_name(name) == name

(***************************************************************************)
(* What the gateway and the user can do                                    *)
(***************************************************************************)
\* { "k1": v1, ... }
Obj3(v, sc, ex) ==
    <<LBrace, JStr("verdict"), Colon, v, Comma, JStr("score"), Colon, sc, Comma,
      JStr("explanation"), Colon, ex, RBrace>>

\* the texts model.generate_content(...).text returns in a run
GatewayTexts ==
    { <<WS>> \o Obj3(JStr("NTA"), JInt(10), JStr("fine")) \o <<WS>>,
      Obj3(JStr("YTA"), JInt(150), JStr("")),
      Obj3(JStr("ESH"), JTrue, JStr("everyone")),
      <<Word("not"), WS, Word("json")>>,
      <<LBrace, JStr("verdict"), Colon, JStr("YTA"), Comma, JStr("score"), Colon,
        JInt(90), RBrace>> }

\* the messages of the exceptions generate_content or .text raise
GatewayErrors == {"blocked"}

\* what the user can type
Scenarios == {"", "I ate the cake"}

(***************************************************************************)
(* The script: one run, top to bottom                                      *)
(***************************************************************************)
NoJudgment == Judgment("", PyInt(0), <<>>)

Init ==
    /\ api_configured = FALSE
    /\ gemini_model = FALSE
    /\ pc = "start"
    /\ scenario = ""
    /\ bound = {}
    /\ persona_results = <<>>
    /\ judge_prompt = <<>>
    /\ final_verdict = ""
    /\ final_score = PyInt(0)
    /\ final_explanation = <<>>
    /\ calls = <<>>
    /\ replies = <<>>
    /\ reported = <<>>
    /\ rendered = <<>>
    /\ p_text = <<>>
    /\ p_name = ""
    /\ p_out = NoJudgment

\* lines 6-30: the key comes from the secrets, from the environment, or from
\* nowhere, and genai.configure may raise
Configure ==
    /\ pc = "start"
    /\ \E key \in {"secrets", "secrets_raise", "env", "env_raise", "none"} :
        /\ api_configured' = (key \in {"secrets", "env"})
        /\ reported' =
              CASE key \in {"secrets", "env"} -> reported
                [] key = "none" -> reported \o <<"error: API Key not found">>
                [] OTHER -> reported \o <<"error: configuring", "error: API Key not found">>
    /\ pc' = "model"
    /\ UNCHANGED <<gemini_model, run_locals, parse_vars>>

\* lines 53-62: the model is built once per session; st.stop() when it cannot be
InitModel ==
    /\ pc = "model"
    /\ IF api_configured /\ ~gemini_model
       THEN \E ok \in BOOLEAN :
               /\ gemini_model' = ok
               /\ pc' = IF ok THEN "ui" ELSE "stopped"
               /\ reported' = IF ok THEN reported
                              ELSE Append(reported, "error: Failed to initialize")
       ELSE /\ pc' = "ui"
            /\ UNCHANGED <<gemini_model, reported>>
    /\ UNCHANGED <<api_configured, run_locals, parse_vars>>

\* lines 70 and 104: the run of a rerun in which the button was not pressed
NoSubmit(text) ==
    /\ pc = "ui"
    /\ scenario' = text
    /\ pc' = "end"
    /\ UNCHANGED <<session_state, bound, persona_results, judge_prompt,
                   final_verdict, final_score, final_explanation, calls, replies,
                   reported, rendered, parse_vars>>

\* checks that let an empty scenario through
Precondition_NoEmptyCheck(text) ==
    CASE ~api_configured -> "error: API Key not configured"
      [] api_configured /\ ~gemini_model -> "error: AI Model not initialized"
      [] OTHER -> "ok"

\* the checks of lines 106-111
Precondition(text) ==
    CASE ~api_configured -> "error: API Key not configured"
      [] api_configured /\ ~gemini_model -> "error: AI Model not initialized"
      [] api_configured /\ gemini_model /\ text = "" ->
            "warning: Please describe your scenario first."
      [] OTHER -> "ok"

\* lines 104-114: the button was pressed
Submit(text) ==
    /\ pc = "ui"
    /\ scenario' = text
    /\ IF Precondition(text) # "ok"
       THEN /\ reported' = Append(reported, Precondition(text))
            /\ pc' = "rejected"
            /\ UNCHANGED <<bound, persona_results>>
       ELSE /\ persona_results' = <<>>
            /\ bound' = {"model", "persona_results"}
            /\ pc' = "persona"
            /\ UNCHANGED reported
    /\ UNCHANGED <<session_state, judge_prompt, final_verdict, final_score,
                   final_explanation, calls, replies, rendered, parse_vars>>

\* a loop that stops one persona early
AfterPersona_OffByOne(results) ==
    IF Len(results) >= Len(PersonaNames) - 1 THEN "build" ELSE "persona"

\* where the loop of line 116 goes after one more entry
AfterPersona(results) ==
    IF Len(results) = Len(PersonaNames) THEN "build" ELSE "persona"

\* the persona whose turn it is
NextPersona == PersonaNames[Len(persona_results) + 1]

\* lines 131-140: one iteration of the loop in which the call returns a text
PersonaReply(text) ==
    /\ pc = "persona"
    /\ LET persona_name == NextPersona
           response_text == strip(text)
       IN  /\ calls' = Append(calls, persona_prompt(persona_name, scenario))
           /\ replies' = Append(replies, [raised |-> FALSE, text |-> text])
           /\ persona_results' = Append(persona_results,
                 Opinion(persona_name, parse_response(response_text, persona_name)))
    /\ pc' = AfterPersona(persona_results')
    /\ UNCHANGED <<session_state, scenario, bound, judge_prompt, final_verdict,
                   final_score, final_explanation, reported, rendered, parse_vars>>

\* an exception that ends the loop: nothing is recorded for this persona
\* and the remaining personas are not asked
PersonaError_Abort(e) ==
    /\ pc = "persona"
    /\ calls' = Append(calls, persona_prompt(NextPersona, scenario))
    /\ replies' = Append(replies, [raised |-> TRUE, text |-> Chars(e)])
    /\ reported' = Append(reported, "error: Error generating response")
    /\ pc' = "build"
    /\ UNCHANGED <<session_state, scenario, bound, persona_results, judge_prompt,
                   final_verdict, final_score, final_explanation, rendered,
                   parse_vars>>

\* lines 131-133 and 141-148: one iteration in which the call raises e
PersonaError(e) ==
    /\ pc = "persona"
    /\ calls' = Append(calls, persona_prompt(NextPersona, scenario))
    /\ replies' = Append(replies, [raised |-> TRUE, text |-> Chars(e)])
    /\ persona_results' = Append(persona_results, ErrorOpinion(NextPersona, e))
    /\ reported' = Append(reported, "error: Error generating response")
    /\ pc' = AfterPersona(persona_results')
    /\ UNCHANGED <<session_state, scenario, bound, judge_prompt, final_verdict,
                   final_score, final_explanation, rendered, parse_vars>>

\* lines 151-181: the judge prompt and the defaults of the final result
BuildJudgePrompt ==
    /\ pc = "build"
    /\ judge_prompt' = build_judge_prompt(scenario, persona_results)
    /\ final_verdict' = "Error"
    /\ final_score' = PyInt(50)
    /\ final_explanation' = Chars("Could not get a final judgment.")
    /\ bound' = bound \cup {"judge_prompt", "final_verdict", "final_score",
                            "final_explanation"}
    /\ pc' = "judge"
    /\ UNCHANGED <<session_state, scenario, persona_results, calls, replies,
                   reported, rendered, parse_vars>>

\* lines 185-188: the judge call returns a text
JudgeReply(text) ==
    /\ pc = "judge"
    /\ calls' = Append(calls, judge_prompt)
    /\ replies' = Append(replies, [raised |-> FALSE, text |-> text])
    /\ LET j == parse_response(strip(text), "Final Judge")
       IN  /\ final_verdict' = j.verdict
           /\ final_score' = j.score
           /\ final_explanation' = j.explanation
    /\ pc' = "display"
    /\ UNCHANGED <<session_state, scenario, bound, persona_results, judge_prompt,
                   reported, rendered, parse_vars>>

\* a judge call with no try around it: the exception ends the run
JudgeError_Propagates(e) ==
    /\ pc = "judge"
    /\ calls' = Append(calls, judge_prompt)
    /\ replies' = Append(replies, [raised |-> TRUE, text |-> Chars(e)])
    /\ pc' = "raised"
    /\ UNCHANGED <<session_state, scenario, bound, persona_results, judge_prompt,
                   final_verdict, final_score, final_explanation, reported,
                   rendered, parse_vars>>

\* a judge call that is made again after an exception
JudgeError_Retry(e) ==
    /\ pc = "judge"
    /\ Len(calls) < Len(PersonaNames) + 3
    /\ calls' = Append(calls, judge_prompt)
    /\ replies' = Append(replies, [raised |-> TRUE, text |-> Chars(e)])
    /\ reported' = Append(reported, "error: Error generating response from the Judge")
    /\ UNCHANGED <<session_state, pc, scenario, bound, persona_results,
                   judge_prompt, final_verdict, final_score, final_explanation,
                   rendered, parse_vars>>

\* lines 185-186 and 189-191: the judge call raises e
JudgeError(e) ==
    /\ pc = "judge"
    /\ calls' = Append(calls, judge_prompt)
    /\ replies' = Append(replies, [raised |-> TRUE, text |-> Chars(e)])
    /\ final_explanation' =
          <<Tok("chars", "An error occurred while the judge was deliberating: ", 0)>>
          \o Chars(e)
    /\ reported' = Append(reported, "error: Error generating response from the Judge")
    /\ pc' = "display"
    /\ UNCHANGED <<session_state, scenario, bound, persona_results, judge_prompt,
                   final_verdict, final_score, rendered, parse_vars>>

\* one expander of lines 195-200
Expander(res) ==
    [title |-> persona_display_name(res.name), verdict |-> res.verdict,
     score |-> py_str(res.score), explanation |-> res.explanation]

\* lines 202-228: the final section; st.progress takes a value in [0.0, 1.0]
FinalSection ==
    [title |-> IF InValidVerdicts(final_verdict) THEN final_verdict
               ELSE "Failed to get a valid final verdict from the Judge.",
     verdict |-> final_verdict,
     score |-> py_str(final_score),
     explanation |-> final_explanation]

\* st.progress(float(final_score) / 100.0) raises outside [0.0, 1.0]
ProgressRaises ==
    InValidVerdicts(final_verdict) /\ ~(0 <= final_score.n /\ final_score.n <= 100)

\* lines 195-228: the results are shown
Display ==
    /\ pc = "display"
    /\ IF ProgressRaises
       THEN /\ rendered' = [i \in 1..Len(persona_results) |-> Expander(persona_results[i])]
            /\ pc' = "raised"
       ELSE /\ rendered' = Append([i \in 1..Len(persona_results) |->
                                      Expander(persona_results[i])], FinalSection)
            /\ pc' = "done"
    /\ UNCHANGED <<session_state, scenario, bound, persona_results, judge_prompt,
                   final_verdict, final_score, final_explanation, calls, replies,
                   reported, parse_vars>>

\* the run is over
Ended == pc \in {"end", "rejected", "stopped", "done", "raised"}

\* the user does something and the script runs again, with the session state
\* kept and everything else new
Rerun ==
    /\ Ended
    /\ pc' = "start"
    /\ scenario' = ""
    /\ bound' = {}
    /\ persona_results' = <<>>
    /\ judge_prompt' = <<>>
    /\ final_verdict' = ""
    /\ final_score' = PyInt(0)
    /\ final_explanation' = <<>>
    /\ calls' = <<>>
    /\ replies' = <<>>
    /\ reported' = <<>>
    /\ rendered' = <<>>
    /\ UNCHANGED <<session_state, parse_vars>>

Next ==
    \/ Configure
    \/ InitModel
    \/ \E text \in Scenarios : NoSubmit(text)
    \/ \E text \in Scenarios : Submit(text)
    \/ \E text \in GatewayTexts : PersonaReply(text)
    \/ \E e \in GatewayErrors : PersonaError(e)
    \/ BuildJudgePrompt
    \/ \E text \in GatewayTexts : JudgeReply(text)
    \/ \E e \in GatewayErrors : JudgeError(e)
    \/ Display
    \/ Rerun

Spec == Init /\ [][Next]_vars

\* the steps of the button handler, which the script takes by itself
Handler ==
    \/ \E text \in GatewayTexts : PersonaReply(text)
    \/ \E e \in GatewayErrors : PersonaError(e)
    \/ BuildJudgePrompt
    \/ \E text \in GatewayTexts : JudgeReply(text)
    \/ \E e \in GatewayErrors : JudgeError(e)
    \/ Display

\* a run that has started goes on: every gateway call returns or raises
FairSpec == Spec /\ WF_vars(Handler)

(***************************************************************************)
(* parse_response on its own, over a family of reply texts                 *)
(***************************************************************************)
RECURSIVE JoinMembers(_)
\* "k": v, ... for the members that are there (a member with no value
\* pieces is left out)
JoinMembers(members) ==
    IF members = <<>> THEN <<>>
    ELSE LET m == Head(members)
             rest == JoinMembers(Tail(members))
         IN  IF m[2] = <<>> THEN rest
             ELSE <<JStr(m[1]), Colon>> \o m[2]
                  \o (IF rest = <<>> THEN <<>> ELSE <<Comma>> \o rest)

\* the text of the object with these members
ObjText(members) == <<LBrace>> \o JoinMembers(members) \o <<RBrace>>

VerdictOpts ==
    {<<>>, <<JInt(1)>>, <<JNull>>}
    \cup {<<JStr(v)>> : v \in {"NTA", "YTA", "ESH", "NAH", "INFO", "Error", "nta", ""}}

ScoreOpts ==
    {<<>>, <<JFloat("10.5")>>, <<JFloat("1e2")>>, <<JStr("10")>>, <<JTrue>>,
     <<JFalse>>, <<JNull>>}
    \cup {<<JInt(n)>> : n \in (0 - Over)..(100 + Over)}

ExplanationOpts == {<<>>, <<JStr("fine")>>, <<JStr("")>>, <<JInt(0)>>, <<JNull>>}

\* the objects with or without each of the three keys
ObjectTexts ==
    {ObjText(<<<<"verdict", v>>, <<"score", sc>>, <<"explanation", ex>>>>) :
        v \in VerdictOpts, sc \in ScoreOpts, ex \in ExplanationOpts}

Canonical == Obj3(JStr("NTA"), JInt(10), JStr("fine"))

\* texts of other shapes
OtherTexts ==
    { <<>>,
      <<Word("not"), WS, Word("json")>>,
      <<JStr("NTA")>>,
      <<JInt(10)>>,
      <<LBrack>> \o Canonical \o <<RBrack>>,
      <<LBrack, JStr("NTA"), Comma, JInt(10), Comma, JStr("fine"), RBrack>>,
      SubSeq(Canonical, 1, Len(Canonical) - 1),
      Canonical \o <<Canonical[1]>>,
      Canonical \o <<WS, Word("Hope"), WS, Word("this"), WS, Word("helps")>>,
      <<WS>> \o Canonical \o <<WS, WS>>,
      ObjText(<<<<"explanation", <<JStr("fine")>>>>, <<"score", <<JInt(10)>>>>,
                <<"verdict", <<JStr("NTA")>>>>>>),
      ObjText(<<<<"verdict", <<JStr("NTA")>>>>, <<"score", <<JStr("x")>>>>,
                <<"explanation", <<JStr("fine")>>>>, <<"score", <<JInt(120)>>>>>>),
      ObjText(<<<<"verdict", <<JStr("NTA")>>>>, <<"score", <<JInt(10)>>>>,
                <<"explanation", <<JStr("fine")>>>>, <<"score", <<JStr("x")>>>>>>),
      ObjText(<<<<"verdict", <<JStr("NTA")>>>>, <<"score", <<JInt(10)>>>>,
                <<"explanation", <<JStr("fine")>>>>, <<"note", <<JNull>>>>>>),
      ObjText(<<<<"verdict", <<JStr("NTA")>>>>, <<"score", <<JInt(10)>>>>,
                <<"explanation", ObjText(<<<<"text", <<JStr("fine")>>>>>>)>>>>),
      ObjText(<<<<"verdict", <<JStr("NTA")>>>>, <<"score", <<JInt(10)>>>>,
                <<"explanation", <<LBrack, JStr("fine"), RBrack>>>>>>),
      ObjText(<<<<"result", Canonical>>>>),
      <<LBrace, JStr("verdict"), JStr("NTA"), RBrace>>,
      <<LBrace, JStr("verdict"), Colon, JStr("NTA"), Comma, RBrace>> }

ParseTexts == ObjectTexts \cup OtherTexts

\* the values of persona_name
ParseNames == {"Model", "Final Judge", "Brittany"}

ParseInit ==
    /\ api_configured = FALSE
    /\ gemini_model = FALSE
    /\ pc = "parse"
    /\ scenario = ""
    /\ bound = {}
    /\ persona_results = <<>>
    /\ judge_prompt = <<>>
    /\ final_verdict = ""
    /\ final_score = PyInt(0)
    /\ final_explanation = <<>>
    /\ calls = <<>>
    /\ replies = <<>>
    /\ reported = <<>>
    /\ rendered = <<>>
    /\ p_text \in ParseTexts
    /\ p_name \in ParseNames
    /\ p_out = NoJudgment

\* verdict, score, explanation = parse_response(p_text, p_name)
ParseResponse ==
    /\ pc = "parse"
    /\ p_out' = parse_response(p_text, p_name)
    /\ pc' = "parsed"
    /\ UNCHANGED <<session_state, run_locals, reported, p_text, p_name>>

ParseNext == ParseResponse

ParseSpec == ParseInit /\ [][ParseNext]_vars

(***************************************************************************)
(* Properties                                                              *)
(***************************************************************************)
NPersonas == Len(PersonaNames)

\* max(0, min(100, s)) on the integers
Clamp(s) == IF s < 0 THEN 0 ELSE IF s > 100 THEN 100 ELSE s

\* the decoded reply of call i of this run
ReplyData(i) == json_loads(strip(replies[i].text)).val

\* call i of this run failed: the gateway raised, or the reply did not validate
Failed(i) == replies[i].raised \/ ~Validates(strip(replies[i].text))

\* the persona phase of this run is over
PersonasOver == pc \in {"build", "judge", "display", "done"}

\* C1: a failure of one persona never aborts, drops or alters another
\* persona's entry. The opinions recorded so far are, in registry order, one
\* per persona asked; the entry of a persona whose call raised or whose reply
\* did not validate is the sentinel (verdict "Error", score 50), every other
\* entry carries the verdict and the clamped score of that persona's own
\* reply; and when the loop is over there is one entry per persona.
C1_Isolation ==
    /\ PersonasOver => Len(persona_results) = NPersonas
    /\ Len(persona_results) <= NPersonas
    /\ Len(persona_results) <= Len(replies)
    /\ \A i \in 1..Len(persona_results) :
        /\ persona_results[i].name = PersonaNames[i]
        /\ IF Failed(i)
           THEN /\ persona_results[i].verdict = "Error"
                /\ persona_results[i].score = PyInt(50)
           ELSE /\ persona_results[i].verdict = Get(ReplyData(i), "verdict").s
                /\ InValidVerdicts(persona_results[i].verdict)
                /\ persona_results[i].score.n = Clamp(Get(ReplyData(i), "score").n)

\* C1 witness: Brittany's call raised, all others validated, and the run is
\* done with the one sentinel in Brittany's place
C1_OnlyBrittanyFails ==
    /\ pc = "done"
    /\ Len(persona_results) = NPersonas
    /\ replies[1].raised
    /\ persona_results[1].name = "Brittany"
    /\ persona_results[1].verdict = "Error"
    /\ \A i \in 2..NPersonas : ~Failed(i) /\ persona_results[i].verdict # "Error"

\* a prompt that goes to the judge
IsJudgePrompt(prompt) == prompt # <<>> /\ prompt[1] = JudgeHeader

\* C2: the judge call is issued only after every persona has a recorded
\* opinion: whenever the run is at the judge call, or a judge prompt is
\* among the calls made, all personas have their entry.
C2_JudgeAfterAllPersonas ==
    (pc = "judge" \/ \E k \in 1..Len(calls) : IsJudgePrompt(calls[k]))
        => /\ Len(persona_results) = NPersonas
           /\ \A i \in 1..NPersonas : persona_results[i].name = PersonaNames[i]

\* C2 witness: the judge call has been made
C2_JudgeCalled ==
    /\ pc = "display"
    /\ Len(calls) = NPersonas + 1
    /\ IsJudgePrompt(calls[NPersonas + 1])

\* the session shown in Done: a non-empty opinion sequence, a final triple
\* that is assigned, and the final section shown after the expanders
C3_WellFormed ==
    /\ persona_results # <<>>
    /\ {"final_verdict", "final_score", "final_explanation"} \subseteq bound
    /\ InValidVerdicts(final_verdict) \/ final_verdict = "Error"
    /\ final_score.n \in 0..100
    /\ Len(rendered) = Len(persona_results) + 1
    /\ rendered[Len(rendered)].verdict = final_verdict

\* C3: every submission that passes the precondition check reaches Done,
\* whatever the persona calls and the judge call do; in Done the session is
\* well formed; and no run ends by an exception.
C3_AlwaysReachesDone ==
    /\ [](pc = "done" => C3_WellFormed)
    /\ [](pc # "raised")
    /\ ((pc = "persona") ~> (pc = "done"))

\* C3 witness: every persona call and the judge call raised, and the run is
\* done with sentinels only
C3_TotalFailure ==
    /\ pc = "done"
    /\ Len(replies) = NPersonas + 1
    /\ \A i \in 1..(NPersonas + 1) : replies[i].raised
    /\ \A i \in 1..NPersonas : persona_results[i].verdict = "Error"
    /\ final_verdict = "Error"
    /\ C3_WellFormed

\* the messages of the precondition check
RejectMessages ==
    {"error: API Key not configured", "error: AI Model not initialized",
     "warning: Please describe your scenario first."}

\* C4: a submit while the gateway is not configured, the model handle is
\* missing or the scenario is empty ends the run in the rejected state, with
\* one more error or warning shown, no gateway call made and neither an
\* opinion sequence nor a final result created; the run does nothing more.
C4_RejectedWithoutCalls ==
    /\ [][(/\ pc = "ui"
           /\ pc' \notin {"ui", "end"}
           /\ (~api_configured \/ ~gemini_model \/ scenario' = ""))
          => (/\ pc' = "rejected"
              /\ reported' # <<>>
              /\ SubSeq(reported', 1, Len(reported') - 1) = reported
              /\ reported'[Len(reported')] \in RejectMessages)]_vars
    /\ [](pc = "rejected" =>
            /\ calls = <<>> /\ replies = <<>>
            /\ bound = {} /\ persona_results = <<>>
            /\ judge_prompt = <<>> /\ final_verdict = "")
    /\ [][(pc = "rejected") => (pc' = "start")]_vars

\* C4 witness: an empty scenario was submitted to a configured gateway and
\* the warning was shown
C4_EmptyScenarioRejected ==
    /\ pc = "rejected"
    /\ api_configured /\ gemini_model
    /\ scenario = ""
    /\ reported = <<"warning: Please describe your scenario first.">>
    /\ calls = <<>>

\* a reply as the response contract wants it: a mapping with a verdict among
\* the five symbols, an integer score (no boolean) and a string explanation
ContractReply(text) ==
    LET d == json_loads(text) IN
    /\ d.ok
    /\ d.val.ty = "dict"
    /\ HasKey(d.val, "verdict")
    /\ Get(d.val, "verdict").ty = "str"
    /\ Get(d.val, "verdict").s \in {"NTA", "YTA", "ESH", "NAH", "INFO"}
    /\ HasKey(d.val, "score")
    /\ Get(d.val, "score").ty = "int"
    /\ HasKey(d.val, "explanation")
    /\ Get(d.val, "explanation").ty = "str"

\* C5: parse_response returns a result with one of the five verdicts only if
\* the text decodes to a mapping with a verdict among the five symbols, an
\* integer score and a string explanation; for every other text (a boolean
\* score among them) it returns the error outcome.
C5_OnlyContractRepliesAccepted ==
    (pc = "parsed" /\ ~ContractReply(p_text))
        => /\ p_out.verdict = "Error"
           /\ p_out.score = PyInt(50)

C7_ExplanationNeverEmpty ==
    /\ \A i \in 1..Len(persona_results) : persona_results[i].explanation # <<>>
    /\ "final_explanation" \in bound => final_explanation # <<>>

\* the first place from `from` on where text inner occurs in text outer, or 0
FindFrom(outer, inner, from) ==
    LET S == {i \in from..(Len(outer) - Len(inner) + 1) :
                 SubSeq(outer, i, i + Len(inner) - 1) = inner}
    IN  IF from = 0 \/ S = {} THEN 0 ELSE CHOOSE i \in S : \A j \in S : i <= j

RECURSIVE FindInOrder(_, _, _)
\* the place after the texts of pieces, found one after the other in outer
\* from `from` on, or 0 when they are not all there in this order
FindInOrder(outer, pieces, from) ==
    IF from = 0 THEN 0
    ELSE IF pieces = <<>> THEN from
    ELSE LET at == FindFrom(outer, Head(pieces), from) IN
         IF at = 0 THEN 0
         ELSE FindInOrder(outer, Tail(pieces), at + Len(Head(pieces)))

RECURSIVE OpinionFields(_)
\* name, verdict, score and explanation of every opinion, in order
OpinionFields(results) ==
    IF results = <<>> THEN <<>>
    ELSE <<Chars(Head(results).name), Chars(Head(results).verdict),
           <<py_str(Head(results).score)>>, Head(results).explanation>>
         \o OpinionFields(Tail(results))

\* the number of opinion headings in a prompt
Headings(prompt) ==
    Cardinality({i \in 1..Len(prompt) : prompt[i] = Tok("chars", "\n--- ", 0)})

\* C8: the judge prompt holds the scenario and then, for every entry of the
\* opinion sequence in its order, the entry's name, verdict, score and
\* explanation, the "Error" entries like the others, with one heading per
\* entry.
C8_JudgePromptHoldsOpinions ==
    pc = "judge" =>
        /\ IsJudgePrompt(judge_prompt)
        /\ FindInOrder(judge_prompt,
                       <<Chars(scenario)>> \o OpinionFields(persona_results), 2) # 0
        /\ Headings(judge_prompt) = Len(persona_results)

\* C8 witness: a judge prompt built over a sentinel entry and a validated one
C8_PromptWithSentinel ==
    /\ pc = "judge"
    /\ persona_results[1].verdict = "Error"
    /\ persona_results[2].verdict = "NTA"
    /\ Contains(judge_prompt, OpinionLines(persona_results[1]))

\* C9: when parse_response rejects a text (it does not decode, or the
\* decoded value has not the required shape) it returns verdict "Error" and
\* score 50 with an explanation that holds a reason and the text verbatim.
C9_RejectionKeepsRawText ==
    (pc = "parsed" /\ ~Validates(p_text))
        => /\ p_out.verdict = "Error"
           /\ p_out.score = PyInt(50)
           /\ Contains(p_out.explanation, p_text)
           /\ Len(p_out.explanation) > Len(p_text)
           /\ p_out.explanation[1].t = "chars"

\* C9 witness: the text "not json" was rejected and is in the explanation
C9_NotJsonRejected ==
    /\ pc = "parsed"
    /\ p_text = <<Word("not"), WS, Word("json")>>
    /\ p_out.verdict = "Error"
    /\ Contains(p_out.explanation, p_text)

\* the calls of the run so far: one per persona asked, in registry order,
\* and then at most one to the judge
C10_CallsSoFar ==
    /\ Len(calls) <= NPersonas + 1
    /\ Len(replies) = Len(calls)
    /\ pc = "persona" => Len(calls) = Len(persona_results)
    /\ pc \in {"build", "judge"} => Len(calls) = NPersonas
    /\ pc \in {"display", "done"} => Len(calls) = NPersonas + 1
    /\ \A k \in 1..Len(calls) :
          IF k <= NPersonas
          THEN /\ ~IsJudgePrompt(calls[k])
               /\ Contains(calls[k], Chars(PersonaNames[k]))
          ELSE calls[k] = judge_prompt /\ IsJudgePrompt(calls[k])

\* C10: a run makes exactly one call per persona and exactly one judge call,
\* whatever fails, and the opinions collected are not changed during or
\* after the judge call.
C10_OneCallEach ==
    /\ []C10_CallsSoFar
    /\ [][(pc \in {"build", "judge", "display"})
            => (persona_results' = persona_results)]_vars

\* C10 witness: a run is done after six calls, of which a persona call and
\* the judge call raised and another persona's reply did not validate
C10_SixCallsWithFailures ==
    /\ pc = "done"
    /\ Len(calls) = NPersonas + 1
    /\ replies[NPersonas + 1].raised
    /\ \E i, j \in 1..NPersonas :
          /\ replies[i].raised
          /\ ~replies[j].raised /\ Failed(j)

====
